---- MODULE Spec2Model ----
(***************************************************************************)
(* Plan synthesis pipeline of Orchestra CLI: LLMParser (extractJSON,       *)
(* validateTasks, validateWhitelist), DAGBuilder (buildDAG,                *)
(* topologicalSort, validateNoCycles, getParallelBatches) and the stub     *)
(* Coordinator.createPlan.                                                 *)
(*                                                                         *)
(* Representation.  A task id is a positive integer n standing for the     *)
(* string "task-00n"; 0 stands for every falsy id (undefined, null, "").   *)
(* An optional object-valued field is a sequence of length 0 (absent) or 1.*)
(* A response text is a sequence of one-character tokens; an intent is the *)
(* sequence of its words, which single spaces separate.                    *)
(***************************************************************************)
EXTENDS Integers, Sequences, FiniteSets, TLC

VARIABLES pc, rawTasks, config, whitelist, tasks, sortedTasks, batches,
          acyclic, error, response, extracted, attempts, intent, events,
          encodings, traceId, clock, runs, rendered, loop

vars == <<pc, rawTasks, config, whitelist, tasks, sortedTasks, batches,
          acyclic, error, response, extracted, attempts, intent, events,
          encodings, traceId, clock, runs, rendered, loop>>

(***************************************************************************)
(* Bounds of the model.                                                    *)
(***************************************************************************)
\* number of task ids, and longest task list, of the graph inputs
MaxTasks == 3
\* longest list of raw records of the validation inputs
MaxRaw == 2
\* longest response text enumerated exhaustively
MaxText == 3
\* longest intent, in words
MaxIntent == 3
\* longest array of records written in the four encodings
MaxRecords == 2
\* most log entries, most run directories, and the latest time of day in
\* milliseconds, of the run manager's behaviours
MaxEvents == 2
MaxRuns == 2
MaxClockMs == 2000
\* length of each of the two chains of tasks of the batching inputs
MaxChain == 2
\* most segments (a character or a placeholder) of a template, and most
\* entries of the variables, of the rendering inputs
MaxTemplate == 3
MaxVariables == 2

(***************************************************************************)
(* Generic helpers.                                                        *)
(***************************************************************************)
Range(s) == {s[i] : i \in 1..Len(s)}

SeqsUpTo(S, n) == UNION {[1..k -> S] : k \in 0..n}

\* Array.prototype.includes
Includes(s, x) == \E i \in 1..Len(s) : s[i] = x

\* Array.prototype.filter
Filter(s, Keep(_)) == SelectSeq(s, Keep)

\* the JavaScript expression  a || b  on numbers and on strings
OrNum(a, b) == IF a = 0 THEN b ELSE a
OrStr(a, b) == IF a = "" THEN b ELSE a
\* ... and on an optional object
OrObj(a, b) == IF a = <<>> THEN b ELSE a[1]

(***************************************************************************)
(* A JavaScript Map: the keys in insertion order, and the values.          *)
(***************************************************************************)
EmptyMap == [keys |-> <<>>, val |-> <<>>]

MapHas(m, k) == k \in DOMAIN m.val

MapSet(m, k, v) ==
  [keys |-> IF MapHas(m, k) THEN m.keys ELSE Append(m.keys, k),
   val  |-> [x \in (DOMAIN m.val) \cup {k} |-> IF x = k THEN v ELSE m.val[x]]]

MapGetOr(m, k, d) == IF MapHas(m, k) THEN m.val[k] ELSE d

(***************************************************************************)
(* Errors and log entries.                                                 *)
(***************************************************************************)
\* what an Error's message is built from; excerpt is the part of the response
\* text that the message quotes
NoError == [kind |-> "none", ref |-> "", num |-> 0, field |-> "",
            tool |-> "", allowed |-> <<>>, ids |-> <<>>, excerpt |-> <<>>]

Err(kind) == [NoError EXCEPT !.kind = kind]

\* the arguments of one call of log
LogEntry(level, message, component, payload) ==
  [level |-> level, message |-> message, component |-> component,
   payload |-> payload]

(***************************************************************************)
(* The logger.  store is what the AsyncLocalStorage holds: <<>> (nothing)  *)
(* or <<id>>.                                                              *)
(***************************************************************************)
\* traceContext.enterWith(id)
setTraceId(id) == <<id>>

\* mutant of getTraceId: the store is not read
getTraceIdUnknown(store) == "unknown"

\* traceContext.getStore() || 'unknown'
getTraceId(store) ==
  IF store = <<>> THEN "unknown" ELSE OrStr(store[1], "unknown")

\* the entry that log writes for a call with these arguments
log(store, e) ==
  [trace_id |-> getTraceId(store), level |-> e.level,
   component |-> e.component, message |-> e.message, payload |-> e.payload]

LogAll(store, es) == [i \in 1..Len(es) |-> log(store, es[i])]

(***************************************************************************)
(* RunManager.  A time is a number of milliseconds; the name of a run      *)
(* directory is the ISO text of the time cut after the seconds, which the  *)
(* number of whole seconds stands for.                                     *)
(***************************************************************************)
MsPerSecond == 1000

\* new Date().toISOString().replace(/[:.]/g, '-').replace(/T/, '_')
\*   .slice(0, -5): the last five characters, -sssZ, are the milliseconds
Timestamp(ms) == ms \div MsPerSecond

\* resolve(this.basePath, timestamp)
RunRoot(basePath, runId, ms) ==
  [base |-> basePath, name |-> <<Timestamp(ms)>>]

createRunDirectory(basePath, runId, ms) ==
  [runId |-> runId, basePath |-> basePath,
   root |-> RunRoot(basePath, runId, ms)]

(***************************************************************************)
(* DAGBuilder.                                                             *)
(***************************************************************************)
RECURSIVE DAGEdges(_)
DAGEdges(ts) ==
  IF ts = <<>> THEN <<>>
  ELSE (IF Head(ts).parent_id # 0
        THEN << <<Head(ts).parent_id, Head(ts).task_id>> >>
        ELSE <<>>) \o DAGEdges(Tail(ts))

buildDAG(ts) ==
  [nodes |-> [i \in 1..Len(ts) |->
                [task_id |-> ts[i].task_id,
                 depends_on |-> IF ts[i].parent_id # 0
                                THEN <<ts[i].parent_id>> ELSE <<>>]],
   edges |-> DAGEdges(ts)]

\* for (const node of dag.nodes) { adjList.set(id, []); inDegree.set(id, 0) }
RECURSIVE InitMaps(_, _, _)
InitMaps(nodes, adj, deg) ==
  IF nodes = <<>> THEN [adjList |-> adj, inDegree |-> deg]
  ELSE InitMaps(Tail(nodes),
                MapSet(adj, Head(nodes).task_id, <<>>),
                MapSet(deg, Head(nodes).task_id, 0))

\* mutant of BuildGraph: an edge from an id that is no node is skipped
RECURSIVE BuildGraphKnownParents(_, _, _)
BuildGraphKnownParents(edges, adj, deg) ==
  IF edges = <<>> THEN [adjList |-> adj, inDegree |-> deg]
  ELSE LET from == Head(edges)[1]
           to   == Head(edges)[2]
       IN IF MapHas(adj, from)
          THEN BuildGraphKnownParents(
                 Tail(edges), MapSet(adj, from, Append(adj.val[from], to)),
                 MapSet(deg, to, MapGetOr(deg, to, 0) + 1))
          ELSE BuildGraphKnownParents(Tail(edges), adj, deg)

\* for (const [from, to] of dag.edges) { adjList.get(from)?.push(to); ... }
RECURSIVE BuildGraph(_, _, _)
BuildGraph(edges, adj, deg) ==
  IF edges = <<>> THEN [adjList |-> adj, inDegree |-> deg]
  ELSE LET from == Head(edges)[1]
           to   == Head(edges)[2]
       IN BuildGraph(Tail(edges),
                     IF MapHas(adj, from)
                     THEN MapSet(adj, from, Append(adj.val[from], to))
                     ELSE adj,
                     MapSet(deg, to, MapGetOr(deg, to, 0) + 1))

\* the nodes with no incoming edge, in the Map's insertion order
ZeroInDegree(deg) == Filter(deg.keys, LAMBDA k : deg.val[k] = 0)

\* mutant of Relax: queue.unshift(neighbor) in place of queue.push
RECURSIVE RelaxUnshift(_, _, _)
RelaxUnshift(neighbors, deg, queue) ==
  IF neighbors = <<>> THEN [inDegree |-> deg, queue |-> queue]
  ELSE LET n == Head(neighbors)
           newDegree == MapGetOr(deg, n, 0) - 1
       IN RelaxUnshift(Tail(neighbors), MapSet(deg, n, newDegree),
                       IF newDegree = 0 THEN <<n>> \o queue ELSE queue)

\* for (const neighbor of adjList.get(current) || []) { ... }
RECURSIVE Relax(_, _, _)
Relax(neighbors, deg, queue) ==
  IF neighbors = <<>> THEN [inDegree |-> deg, queue |-> queue]
  ELSE LET n == Head(neighbors)
           newDegree == MapGetOr(deg, n, 0) - 1
       IN Relax(Tail(neighbors), MapSet(deg, n, newDegree),
                IF newDegree = 0 THEN Append(queue, n) ELSE queue)

\* mutant of KahnLoop: sorted.unshift(current) in place of sorted.push
RECURSIVE KahnLoopUnshift(_, _, _, _)
KahnLoopUnshift(queue, sorted, adj, deg) ==
  IF queue = <<>> THEN sorted
  ELSE LET current == Head(queue)
           r == Relax(MapGetOr(adj, current, <<>>), deg, Tail(queue))
       IN KahnLoopUnshift(r.queue, <<current>> \o sorted, adj, r.inDegree)

\* mutant of KahnLoop: queue.pop() in place of queue.shift()
RECURSIVE KahnLoopPop(_, _, _, _)
KahnLoopPop(queue, sorted, adj, deg) ==
  IF queue = <<>> THEN sorted
  ELSE LET current == queue[Len(queue)]
           r == Relax(MapGetOr(adj, current, <<>>), deg,
                      SubSeq(queue, 1, Len(queue) - 1))
       IN KahnLoopPop(r.queue, Append(sorted, current), adj, r.inDegree)

\* while (queue.length > 0) { const current = queue.shift(); ... }
RECURSIVE KahnLoop(_, _, _, _)
KahnLoop(queue, sorted, adj, deg) ==
  IF queue = <<>> THEN sorted
  ELSE LET current == Head(queue)
           r == Relax(MapGetOr(adj, current, <<>>), deg, Tail(queue))
       IN KahnLoop(r.queue, Append(sorted, current), adj, r.inDegree)

SortedIds(ts) ==
  LET dag == buildDAG(ts)
      m0  == InitMaps(dag.nodes, EmptyMap, EmptyMap)
      m1  == BuildGraph(dag.edges, m0.adjList, m0.inDegree)
  IN KahnLoop(ZeroInDegree(m1.inDegree), <<>>, m1.adjList, m1.inDegree)

\* mutant of TaskMap: the map holds a copy of each task, marked as running
RECURSIVE TaskMapRunning(_, _)
TaskMapRunning(ts, m) ==
  IF ts = <<>> THEN m
  ELSE TaskMapRunning(Tail(ts),
                      MapSet(m, Head(ts).task_id,
                             [Head(ts) EXCEPT !.state = "running"]))

\* new Map(tasks.map((t) => [t.task_id, t])): a later entry replaces an earlier
RECURSIVE TaskMap(_, _)
TaskMap(ts, m) ==
  IF ts = <<>> THEN m
  ELSE TaskMap(Tail(ts), MapSet(m, Head(ts).task_id, Head(ts)))

\* mutant of MissingIds: only the first unsorted task is reported
MissingIdsFirstOnly(ts, sorted) ==
  LET missing == Filter(ts, LAMBDA t : ~Includes(sorted, t.task_id))
  IN IF missing = <<>> THEN <<>> ELSE <<missing[1].task_id>>

MissingIds(ts, sorted) ==
  LET missing == Filter(ts, LAMBDA t : ~Includes(sorted, t.task_id))
  IN [i \in 1..Len(missing) |-> missing[i].task_id]

\* mutant of topologicalSort: the sorted ids are counted against the keys
\* of the in-degree map, so two tasks with one id count once
topologicalSortByKeys(ts) ==
  LET sorted == SortedIds(ts)
  IN IF Len(sorted) # Cardinality({ts[i].task_id : i \in 1..Len(ts)})
     THEN [ok |-> FALSE, tasks |-> <<>>,
           error |-> [Err("cycle") EXCEPT !.ids = MissingIds(ts, sorted)]]
     ELSE LET taskMap == TaskMap(ts, EmptyMap)
          IN [ok |-> TRUE,
              tasks |-> [i \in 1..Len(sorted) |-> taskMap.val[sorted[i]]],
              error |-> NoError]

topologicalSort(ts) ==
  LET sorted == SortedIds(ts)
  IN IF Len(sorted) # Len(ts)
     THEN [ok |-> FALSE, tasks |-> <<>>,
           error |-> [Err("cycle") EXCEPT !.ids = MissingIds(ts, sorted)]]
     ELSE LET taskMap == TaskMap(ts, EmptyMap)
          IN [ok |-> TRUE,
              tasks |-> [i \in 1..Len(sorted) |-> taskMap.val[sorted[i]]],
              error |-> NoError]

\* mutant of validateNoCycles: the catch block returns true as well
validateNoCyclesCatchTrue(ts) == topologicalSort(ts).ok \/ TRUE

\* try { this.topologicalSort(tasks); return true } catch { return false }
validateNoCycles(ts) == topologicalSort(ts).ok

\* one iteration of the while loop of getParallelBatches: the tasks of
\* sorted that are not completed and can run
NextBatch(sorted, completed) ==
  Filter(sorted, LAMBDA t : /\ t.task_id \notin completed
                            /\ (t.parent_id = 0 \/ t.parent_id \in completed))

\* mutant of Complete: the tasks of the batch are not marked
CompleteNone(completed, batch) == completed

\* batch.forEach((t) => completed.add(t.task_id))
Complete(completed, batch) ==
  completed \cup {batch[i].task_id : i \in 1..Len(batch)}

\* mutant of BatchLoop: a task is marked completed as soon as it joins the
\* batch, so a child can join the batch of its parent
RECURSIVE EagerBatch(_, _, _)
EagerBatch(rest, completed, batch) ==
  IF rest = <<>> THEN batch
  ELSE LET t == Head(rest)
           run == /\ t.task_id \notin completed
                  /\ (t.parent_id = 0 \/ t.parent_id \in completed)
       IN EagerBatch(Tail(rest),
                     IF run THEN completed \cup {t.task_id} ELSE completed,
                     IF run THEN Append(batch, t) ELSE batch)
RECURSIVE BatchLoopEager(_, _, _)
BatchLoopEager(sorted, completed, bs) ==
  IF ~(Cardinality(completed) < Len(sorted))
  THEN [ok |-> TRUE, batches |-> bs, error |-> NoError]
  ELSE LET batch == EagerBatch(sorted, completed, <<>>)
       IN IF Len(batch) = 0
          THEN [ok |-> FALSE, batches |-> <<>>, error |-> Err("consistency")]
          ELSE BatchLoopEager(sorted,
                              completed \cup {batch[i].task_id : i \in 1..Len(batch)},
                              Append(bs, batch))

\* mutant of BatchLoop: the parent is not looked at
RECURSIVE BatchLoopNoDeps(_, _, _)
BatchLoopNoDeps(sorted, completed, bs) ==
  IF ~(Cardinality(completed) < Len(sorted))
  THEN [ok |-> TRUE, batches |-> bs, error |-> NoError]
  ELSE LET batch == Filter(sorted, LAMBDA t : t.task_id \notin completed)
       IN BatchLoopNoDeps(sorted,
                          completed \cup {batch[i].task_id : i \in 1..Len(batch)},
                          Append(bs, batch))

\* mutant of BatchLoop: a runnable task is put at the front of the batch
RECURSIVE BatchLoopUnshift(_, _, _)
BatchLoopUnshift(sorted, completed, bs) ==
  IF ~(Cardinality(completed) < Len(sorted))
  THEN [ok |-> TRUE, batches |-> bs, error |-> NoError]
  ELSE LET canRun(t) == t.parent_id = 0 \/ t.parent_id \in completed
           run == Filter(sorted,
                         LAMBDA t : t.task_id \notin completed /\ canRun(t))
           batch == [i \in 1..Len(run) |-> run[Len(run) + 1 - i]]
       IN IF Len(batch) = 0
          THEN [ok |-> FALSE, batches |-> <<>>, error |-> Err("consistency")]
          ELSE BatchLoopUnshift(sorted,
                                completed \cup {batch[i].task_id : i \in 1..Len(batch)},
                                Append(bs, batch))

\* while (completed.size < sorted.length) { ... }
RECURSIVE BatchLoop(_, _, _)
BatchLoop(sorted, completed, bs) ==
  IF ~(Cardinality(completed) < Len(sorted))
  THEN [ok |-> TRUE, batches |-> bs, error |-> NoError]
  ELSE LET canRun(t) == t.parent_id = 0 \/ t.parent_id \in completed
           batch == Filter(sorted,
                           LAMBDA t : t.task_id \notin completed /\ canRun(t))
       IN IF Len(batch) = 0
          THEN [ok |-> FALSE, batches |-> <<>>, error |-> Err("consistency")]
          ELSE BatchLoop(sorted,
                         completed \cup {batch[i].task_id : i \in 1..Len(batch)},
                         Append(bs, batch))

\* mutant of getParallelBatches: the tasks are batched as given, unsorted
getParallelBatchesUnsorted(ts) == BatchLoop(ts, {}, <<>>)

getParallelBatches(ts) ==
  LET s == topologicalSort(ts)
  IN IF ~s.ok THEN [ok |-> FALSE, batches |-> <<>>, error |-> s.error]
     ELSE BatchLoop(s.tasks, {}, <<>>)

(***************************************************************************)
(* PromptTemplate.render.  A text is a sequence of characters; a value is  *)
(* a string, a number or an array of numbers; the variables are the        *)
(* entries of the object, in the order of Object.entries.                  *)
(***************************************************************************)
\* `{${key}}`
Placeholder(key) == <<"{">> \o key \o <<"}">>

Digits == <<"0", "1", "2", "3", "4", "5", "6", "7", "8", "9">>

\* JSON.stringify of the numbers of an array, separated by commas
RECURSIVE StringifyItems(_)
StringifyItems(items) ==
  IF items = <<>> THEN <<>>
  ELSE IF Len(items) = 1 THEN <<Digits[items[1] + 1]>>
  ELSE <<Digits[items[1] + 1], ",">> \o StringifyItems(Tail(items))

\* JSON.stringify(value) of a number below ten, or of an array of them
JSONstringify(value) ==
  IF value.type = "number" THEN <<Digits[value.items[1] + 1]>>
  ELSE <<"[">> \o StringifyItems(value.items) \o <<"]">>

\* typeof value === 'string' ? value : JSON.stringify(value)
Replacement(value) ==
  IF value.type = "string" THEN value.text ELSE JSONstringify(value)

IsPrefix(p, text) == Len(p) <= Len(text) /\ SubSeq(text, 1, Len(p)) = p

\* result.split(placeholder).join(replacement): the occurrences of the
\* placeholder are found from the left, none overlapping another, and the
\* replacement is not searched
RECURSIVE SplitJoin(_, _, _)
SplitJoin(text, placeholder, replacement) ==
  IF text = <<>> THEN <<>>
  ELSE IF IsPrefix(placeholder, text)
  THEN replacement
       \o SplitJoin(SubSeq(text, Len(placeholder) + 1, Len(text)),
                    placeholder, replacement)
  ELSE <<Head(text)>> \o SplitJoin(Tail(text), placeholder, replacement)

\* for (const [key, value] of Object.entries(variables)) { ... }
RECURSIVE render(_, _)
render(template, variables) ==
  IF variables = <<>> THEN template
  ELSE render(SplitJoin(template, Placeholder(Head(variables).key),
                        Replacement(Head(variables).value)),
              Tail(variables))

(***************************************************************************)
(* LLMParser.validateTasks and LLMParser.validateWhitelist.                *)
(***************************************************************************)
\* inputs: raw.inputs || { args: [], env: {}, files: [] }
DefaultInputs == [args |-> <<>>, env |-> <<>>, files |-> <<>>]

\* constraints: raw.constraints || { max_duration_sec: ..., ... }
DefaultConstraints(cfg) ==
  [max_duration_sec |-> OrNum(cfg.policies.max_task_duration_sec, 300),
   max_retries      |-> OrNum(cfg.retries.max, 2),
   concurrency      |-> 1,
   sandbox |-> [fs  |-> OrStr(cfg.policies.default_fs_mode, "read-only"),
                net |-> IF cfg.policies.allow_network THEN "allow" ELSE "deny"]]

\* mutant of EnrichTask: the record's own state, retries and logs are kept
EnrichTaskKeepingState(raw, cfg) ==
  [task_id     |-> raw.task_id,
   parent_id   |-> OrNum(raw.parent_id, 0),
   level       |-> OrNum(raw.level, 3),
   intent      |-> raw.intent,
   inputs      |-> OrObj(raw.inputs, DefaultInputs),
   tools       |-> raw.tools.items,
   constraints |-> OrObj(raw.constraints, DefaultConstraints(cfg)),
   state       |-> OrStr(raw.state, "planned"),
   retries     |-> raw.retries,
   logs        |-> raw.logs,
   artifacts   |-> <<>>,
   metrics     |-> <<>>,
   timestamps  |-> [created_at |-> <<"now">>, started_at |-> <<>>,
                    completed_at |-> <<>>]]

\* the task object literal built for one raw record
EnrichTask(raw, cfg) ==
  [task_id     |-> raw.task_id,
   parent_id   |-> OrNum(raw.parent_id, 0),
   level       |-> OrNum(raw.level, 3),
   intent      |-> raw.intent,
   inputs      |-> OrObj(raw.inputs, DefaultInputs),
   tools       |-> raw.tools.items,
   constraints |-> OrObj(raw.constraints, DefaultConstraints(cfg)),
   state       |-> "planned",
   retries     |-> 0,
   logs        |-> <<>>,
   artifacts   |-> <<>>,
   metrics     |-> <<>>,
   timestamps  |-> [created_at |-> <<"now">>, started_at |-> <<>>,
                    completed_at |-> <<>>]]

\* mutant of RecordError: tools is checked before intent
RecordErrorToolsFirst(raw, i) ==
  IF raw.task_id = 0
  THEN [Err("validation") EXCEPT !.ref = "index", !.num = i,
                                 !.field = "task_id"]
  ELSE IF raw.tools.kind # "array" \/ Len(raw.tools.items) = 0
  THEN [Err("validation") EXCEPT !.ref = "task_id", !.num = raw.task_id,
                                 !.field = "tools"]
  ELSE IF raw.intent = <<>>
  THEN [Err("validation") EXCEPT !.ref = "task_id", !.num = raw.task_id,
                                 !.field = "intent"]
  ELSE NoError

\* the three required-field checks of one record, in the order of the code;
\* i is the record's 0-based index
RecordError(raw, i) ==
  IF raw.task_id = 0
  THEN [Err("validation") EXCEPT !.ref = "index", !.num = i,
                                 !.field = "task_id"]
  ELSE IF raw.intent = <<>>
  THEN [Err("validation") EXCEPT !.ref = "task_id", !.num = raw.task_id,
                                 !.field = "intent"]
  ELSE IF raw.tools.kind # "array" \/ Len(raw.tools.items) = 0
  THEN [Err("validation") EXCEPT !.ref = "task_id", !.num = raw.task_id,
                                 !.field = "tools"]
  ELSE NoError

\* mutant of ValidateLoop: tasks.unshift(task) in place of tasks.push(task)
RECURSIVE ValidateLoopUnshift(_, _, _, _)
ValidateLoopUnshift(items, cfg, i, acc) ==
  IF i >= Len(items)
  THEN [ok |-> TRUE, tasks |-> acc, error |-> NoError]
  ELSE LET raw == items[i + 1]
           e   == RecordError(raw, i)
       IN IF e.kind # "none"
          THEN [ok |-> FALSE, tasks |-> <<>>, error |-> e]
          ELSE ValidateLoopUnshift(items, cfg, i + 1,
                                   <<EnrichTask(raw, cfg)>> \o acc)

\* for (let i = 0; i < rawTasks.length; i++) { ... tasks.push(task) }
RECURSIVE ValidateLoop(_, _, _, _)
ValidateLoop(items, cfg, i, acc) ==
  IF i >= Len(items)
  THEN [ok |-> TRUE, tasks |-> acc, error |-> NoError]
  ELSE LET raw == items[i + 1]
           e   == RecordError(raw, i)
       IN IF e.kind # "none"
          THEN [ok |-> FALSE, tasks |-> <<>>, error |-> e]
          ELSE ValidateLoop(items, cfg, i + 1, Append(acc, EnrichTask(raw, cfg)))

validateTasks(raw, cfg) ==
  IF ~raw.isArray
  THEN [ok |-> FALSE, tasks |-> <<>>, error |-> Err("not_array")]
  ELSE ValidateLoop(raw.items, cfg, 0, <<>>)

\* mutant of FirstViolation: the last disallowed tool of the task is named
RECURSIVE LastToolViolation(_, _)
LastToolViolation(ts, wl) ==
  IF ts = <<>> THEN NoError
  ELSE LET bad == Filter(Head(ts).tools, LAMBDA tool : ~Includes(wl, tool))
       IN IF bad # <<>>
          THEN [Err("whitelist") EXCEPT !.ref = "task_id",
                                        !.num = Head(ts).task_id,
                                        !.tool = bad[Len(bad)], !.allowed = wl]
          ELSE LastToolViolation(Tail(ts), wl)

\* the first tool of ts that wl does not include, tasks then tools in order
RECURSIVE FirstViolation(_, _)
FirstViolation(ts, wl) ==
  IF ts = <<>> THEN NoError
  ELSE LET bad == Filter(Head(ts).tools, LAMBDA tool : ~Includes(wl, tool))
       IN IF bad # <<>>
          THEN [Err("whitelist") EXCEPT !.ref = "task_id",
                                        !.num = Head(ts).task_id,
                                        !.tool = bad[1], !.allowed = wl]
          ELSE FirstViolation(Tail(ts), wl)

\* mutant of validateWhitelist: only the first tool of each task is checked
validateWhitelistFirstTool(ts, wl) ==
  LET bad == Filter(ts, LAMBDA t : ~Includes(wl, t.tools[1]))
  IN [ok |-> bad = <<>>,
      error |-> IF bad = <<>> THEN NoError
                ELSE [Err("whitelist") EXCEPT !.ref = "task_id",
                                              !.num = bad[1].task_id,
                                              !.tool = bad[1].tools[1],
                                              !.allowed = wl]]

validateWhitelist(ts, wl) ==
  LET e == FirstViolation(ts, wl)
  IN [ok |-> e.kind = "none", error |-> e]

(***************************************************************************)
(* Coordinator (stub planner).                                             *)
(***************************************************************************)
\* action.split(new RegExp(`\\s+${keyword}\\s+`, 'i')): a keyword splits
\* where white space stands on both sides of it, and a match consumes both
RECURSIVE SplitOn(_, _)
SplitOn(words, keyword) ==
  LET at == {i \in 2..(Len(words) - 1) : words[i] = keyword}
  IN IF at = {} THEN <<words>>
     ELSE LET i == CHOOSE x \in at : \A y \in at : x <= y
          IN <<SubSeq(words, 1, i - 1)>>
             \o SplitOn(SubSeq(words, i + 1, Len(words)), keyword)

RECURSIVE SplitAll(_, _)
SplitAll(actions, keyword) ==
  IF actions = <<>> THEN <<>>
  ELSE SplitOn(Head(actions), keyword) \o SplitAll(Tail(actions), keyword)

extractActions(text) ==
  LET a1 == SplitAll(<<text>>, "and")
      a2 == SplitAll(a1, "then")
      a3 == SplitAll(a2, ",")
  IN Filter(a3, LAMBDA a : Len(a) > 0)

\* lower.includes(k) for some k of keys
Mentions(action, keys) == \E i \in 1..Len(action) : action[i] \in keys

\* whitelist.filter((t) => allowed.includes(t)).slice(0, 1)
FirstOf(wl, allowed) ==
  LET f == Filter(wl, LAMBDA t : t \in allowed)
  IN SubSeq(f, 1, IF Len(f) < 1 THEN Len(f) ELSE 1)

suggestTools(action, wl) ==
  IF Mentions(action, {"readme", "file", "create"})
  THEN FirstOf(wl, {"echo", "cat"})
  ELSE IF Mentions(action, {"lint", "test", "build"})
  THEN FirstOf(wl, {"node", "pnpm"})
  ELSE IF Mentions(action, {"list", "show"})
  THEN FirstOf(wl, {"ls", "cat"})
  ELSE <<"echo">>

generateStubPlan(text, wl, cfg) ==
  LET actions == extractActions(text)
  IN [index \in 1..Len(actions) |->
        [task_id     |-> index,
         parent_id   |-> index - 1,
         level       |-> 3,
         intent      |-> actions[index],
         inputs      |-> [args |-> <<>>, env |-> <<>>, files |-> <<>>],
         tools       |-> suggestTools(actions[index], wl),
         constraints |->
           [max_duration_sec |-> cfg.policies.max_task_duration_sec,
            max_retries      |-> cfg.retries.max,
            concurrency      |-> 1,
            sandbox |-> [fs  |-> cfg.policies.default_fs_mode,
                         net |-> IF cfg.policies.allow_network
                                 THEN "allow" ELSE "deny"]],
         state       |-> "planned",
         retries     |-> 0,
         logs        |-> <<>>,
         artifacts   |-> <<>>,
         metrics     |-> <<>>,
         timestamps  |-> [created_at |-> <<"now">>, started_at |-> <<>>,
                          completed_at |-> <<>>]]]

createPlan(text, wl, cfg) == generateStubPlan(text, wl, cfg)

(***************************************************************************)
(* LLMParser.extractJSON.  Tokens of a response text:                      *)
(*   [ ] { } ,   the JSON punctuation                                      *)
(*   m           one object member  "key": scalar                          *)
(*   k           the start  "key":  of a member whose value follows        *)
(*   w           a word of prose,  j  the word json                        *)
(*   s  n        a space, a newline                                        *)
(*   F           a code fence ```                                          *)
(* A parsed value is written as its text without white space.              *)
(***************************************************************************)
IsSpace(c) == c \in {"s", "n"}

\* String.prototype.trim
RECURSIVE TrimLeft(_)
TrimLeft(t) == IF t # <<>> /\ IsSpace(Head(t)) THEN TrimLeft(Tail(t)) ELSE t
RECURSIVE TrimRight(_)
TrimRight(t) ==
  IF t # <<>> /\ IsSpace(t[Len(t)]) THEN TrimRight(SubSeq(t, 1, Len(t) - 1))
  ELSE t
Trim(t) == TrimRight(TrimLeft(t))

At(t, p) == IF p \in 1..Len(t) THEN t[p] ELSE "eof"

\* recursive descent over the text without white space: the position after
\* the value, member list or element list that starts at p, or 0
RECURSIVE ParseValue(_, _)
RECURSIVE ParseMembers(_, _)
RECURSIVE ParseElements(_, _)
ParseValue(t, p) ==
  IF At(t, p) = "{"
  THEN IF At(t, p + 1) = "}" THEN p + 2
       ELSE LET q == ParseMembers(t, p + 1)
            IN IF q # 0 /\ At(t, q) = "}" THEN q + 1 ELSE 0
  ELSE IF At(t, p) = "["
  THEN IF At(t, p + 1) = "]" THEN p + 2
       ELSE LET q == ParseElements(t, p + 1)
            IN IF q # 0 /\ At(t, q) = "]" THEN q + 1 ELSE 0
  ELSE 0
ParseMembers(t, p) ==
  LET q == IF At(t, p) = "m" THEN p + 1
           ELSE IF At(t, p) = "k" THEN ParseValue(t, p + 1)
           ELSE 0
  IN IF q # 0 /\ At(t, q) = "," THEN ParseMembers(t, q + 1) ELSE q
ParseElements(t, p) ==
  LET q == ParseValue(t, p)
  IN IF q # 0 /\ At(t, q) = "," THEN ParseElements(t, q + 1) ELSE q

\* JSON.parse: <<value>>, or <<>> when it throws
JSONparse(text) ==
  LET t == Filter(text, LAMBDA c : ~IsSpace(c))
  IN IF ParseValue(t, 1) = Len(t) + 1 THEN <<t>> ELSE <<>>

\* the white space that starts at p: its length
RECURSIVE SpaceRun(_, _)
SpaceRun(t, p) == IF IsSpace(At(t, p)) THEN 1 + SpaceRun(t, p + 1) ELSE 0

Max(S) == CHOOSE x \in S : \A y \in S : y <= x
Min(S) == CHOOSE x \in S : \A y \in S : x <= y

\* response.match(/```(?:json)?\s*\n([\s\S]*?)\n```/): <<group 1>>, or <<>>.
\* At a fence at i: the tag if it is there, then the longest white space
\* \s* that leaves a newline and a closing  \n```  after it, then the
\* shortest content.
ClosingAt(t, e) == At(t, e) = "n" /\ At(t, e + 1) = "F"
CodeBlockAt(t, i) ==
  LET a  == IF At(t, i + 1) = "j" THEN i + 2 ELSE i + 1
      ks == {k \in 0..SpaceRun(t, a) :
               /\ At(t, a + k) = "n"
               /\ \E e \in (a + k + 1)..Len(t) : ClosingAt(t, e)}
  IN IF At(t, i) # "F" \/ ks = {} THEN <<>>
     ELSE LET c == a + Max(ks) + 1
              e == Min({x \in c..Len(t) : ClosingAt(t, x)})
          IN <<SubSeq(t, c, e - 1)>>
CodeBlockMatch(t) ==
  LET at == {i \in 1..Len(t) : CodeBlockAt(t, i) # <<>>}
  IN IF at = {} THEN <<>> ELSE CodeBlockAt(t, Min(at))

\* response.match(/\[\s*\{[\s\S]*\}\s*\]/): <<match>>, or <<>>.  The greedy
\* [\s\S]* ends at the last  }  that white space and a  ]  follow.
ArrayEnds(t, i) ==
  LET b == i + 1 + SpaceRun(t, i + 1)
  IN IF At(t, i) # "[" \/ At(t, b) # "{" THEN {}
     ELSE {p + 1 + SpaceRun(t, p + 1) : p \in
             {x \in (b + 1)..Len(t) :
                t[x] = "}" /\ At(t, x + 1 + SpaceRun(t, x + 1)) = "]"}}
\* mutant of ArrayMatch: the lazy [\s\S]*? ends at the first  }  that white
\* space and a  ]  follow
ArrayMatchLazy(t) ==
  LET at == {i \in 1..Len(t) : ArrayEnds(t, i) # {}}
  IN IF at = {} THEN <<>>
     ELSE <<SubSeq(t, Min(at), Min(ArrayEnds(t, Min(at))))>>

ArrayMatch(t) ==
  LET at == {i \in 1..Len(t) : ArrayEnds(t, i) # {}}
  IN IF at = {} THEN <<>>
     ELSE <<SubSeq(t, Min(at), Max(ArrayEnds(t, Min(at))))>>

\* response.match(/\{[\s\S]*\}/): <<match>>, or <<>>
ObjectEnds(t, i) ==
  IF At(t, i) # "{" THEN {} ELSE {p \in (i + 1)..Len(t) : t[p] = "}"}
ObjectMatch(t) ==
  LET at == {i \in 1..Len(t) : ObjectEnds(t, i) # {}}
  IN IF at = {} THEN <<>>
     ELSE <<SubSeq(t, Min(at), Max(ObjectEnds(t, Min(at))))>>

\* response.slice(0, 200)
ExcerptLength == 200
Slice(t, n) == SubSeq(t, 1, IF Len(t) < n THEN Len(t) ELSE n)

\* the outcome of extractJSON so far: value is <<v>> once an attempt has
\* returned v; tried lists the attempts that called JSON.parse
NotReturned == [value |-> <<>>, tried |-> <<>>, events |-> <<>>]

\* one attempt of extractJSON: skipped once a value was returned or when the
\* pattern does not match; a parse failure logs warning and goes on
Attempt(prev, name, match, warning) ==
  IF prev.value # <<>> \/ match = <<>> THEN prev
  ELSE LET v == JSONparse(match[1])
       IN [value  |-> v,
           tried  |-> Append(prev.tried, name),
           events |-> IF v = <<>> /\ warning # ""
                      THEN Append(prev.events,
                                  LogEntry("warn", warning, "L2", <<>>))
                      ELSE prev.events]

\* mutant of extractJSON: the object pattern is tried before the array
\* pattern
extractJSONObjectFirst(resp) ==
  LET r1 == Attempt(NotReturned, "direct", <<Trim(resp)>>, "")
      m2 == CodeBlockMatch(resp)
      r2 == Attempt(r1, "code_block",
                    IF m2 = <<>> THEN <<>> ELSE <<Trim(m2[1])>>,
                    "Failed to parse JSON from code block")
      r3 == Attempt(r2, "object", ObjectMatch(resp),
                    "Failed to parse extracted JSON object")
      r4 == Attempt(r3, "array", ArrayMatch(resp),
                    "Failed to parse extracted JSON array")
  IN IF r4.value # <<>>
     THEN [ok |-> TRUE, value |-> r4.value, tried |-> r4.tried,
           events |-> r4.events, error |-> NoError]
     ELSE [ok |-> FALSE, value |-> <<>>, tried |-> r4.tried,
           events |-> Append(r4.events,
                             LogEntry("error",
                                      "No valid JSON found in LLM response",
                                      "L2", Slice(resp, ExcerptLength))),
           error |-> Err("extraction")]

extractJSON(resp) ==
  LET r1 == Attempt(NotReturned, "direct", <<Trim(resp)>>, "")
      m2 == CodeBlockMatch(resp)
      r2 == Attempt(r1, "code_block",
                    IF m2 = <<>> THEN <<>> ELSE <<Trim(m2[1])>>,
                    "Failed to parse JSON from code block")
      r3 == Attempt(r2, "array", ArrayMatch(resp),
                    "Failed to parse extracted JSON array")
      r4 == Attempt(r3, "object", ObjectMatch(resp),
                    "Failed to parse extracted JSON object")
  IN IF r4.value # <<>>
     THEN [ok |-> TRUE, value |-> r4.value, tried |-> r4.tried,
           events |-> r4.events, error |-> NoError]
     ELSE [ok |-> FALSE, value |-> <<>>, tried |-> r4.tried,
           events |-> Append(r4.events,
                             LogEntry("error",
                                      "No valid JSON found in LLM response",
                                      "L2", Slice(resp, ExcerptLength))),
           error |-> Err("extraction")]

(***************************************************************************)
(* Inputs.                                                                 *)
(***************************************************************************)
\* policy configurations (config/schema.ts)
Configs ==
  {[policies |-> [max_task_duration_sec |-> d, default_fs_mode |-> f,
                  allow_network |-> a],
    retries  |-> [max |-> r]] :
     d \in {0, 60}, f \in {"read-only", "rw"}, a \in BOOLEAN, r \in {0, 3}}

DefaultConfig ==
  [policies |-> [max_task_duration_sec |-> 60, default_fs_mode |-> "read-only",
                 allow_network |-> FALSE],
   retries  |-> [max |-> 3]]

DefaultWhitelist == <<"echo", "ls">>

Whitelists ==
  {<<>>, DefaultWhitelist, <<"echo", "wget">>, <<"curl", "wget", "echo">>,
   <<"ls", "cat", "node">>}

\* the configuration and the whitelist of a run: every configuration with
\* the default whitelist, every whitelist with the default configuration
Contexts ==
  {[cfg |-> c, wl |-> DefaultWhitelist] : c \in Configs}
  \cup {[cfg |-> DefaultConfig, wl |-> w] : w \in Whitelists}

\* the fields a raw record may carry besides the required ones: none of
\* them, all of them, or some of them
NoExtras ==
  [level |-> 0, inputs |-> <<>>, constraints |-> <<>>, state |-> "",
   retries |-> 0, logs |-> <<>>, artifacts |-> <<>>, metrics |-> <<>>,
   timestamps |-> [created_at |-> <<>>, started_at |-> <<>>,
                   completed_at |-> <<>>]]

AllExtras ==
  [level |-> 2,
   inputs |-> <<[args |-> <<"-la">>, env |-> <<>>, files |-> <<>>]>>,
   constraints |-> <<[max_duration_sec |-> 10, max_retries |-> 1,
                      concurrency |-> 2,
                      sandbox |-> [fs |-> "rw", net |-> "allow"]]>>,
   state |-> "done", retries |-> 5, logs |-> <<"log">>,
   artifacts |-> <<"out">>, metrics |-> <<"duration_ms">>,
   timestamps |-> [created_at |-> <<"then">>, started_at |-> <<"then">>,
                   completed_at |-> <<"then">>]]

\* a raw record (any) with a level that no tier has and with constraints
\* that give the retries only
SomeExtras ==
  [level |-> 7, inputs |-> <<>>, constraints |-> <<[max_retries |-> 1]>>,
   state |-> "", retries |-> 0, logs |-> <<>>, artifacts |-> <<>>,
   metrics |-> <<>>,
   timestamps |-> [created_at |-> <<>>, started_at |-> <<>>,
                   completed_at |-> <<>>]]

RawRecord(id, parent, text, tools, x) ==
  [task_id |-> id, parent_id |-> parent, intent |-> text, tools |-> tools,
   level |-> x.level, inputs |-> x.inputs, constraints |-> x.constraints,
   state |-> x.state, retries |-> x.retries, logs |-> x.logs,
   artifacts |-> x.artifacts, metrics |-> x.metrics,
   timestamps |-> x.timestamps]

ToolsField(kind, items) == [kind |-> kind, items |-> items]

\* the tools field of a raw record: absent, a string, or a list
ToolsOf(shape) ==
  IF shape = "missing" THEN ToolsField("missing", <<>>)
  ELSE IF shape = "string" THEN ToolsField("string", <<>>)
  ELSE IF shape = "empty" THEN ToolsField("array", <<>>)
  ELSE IF shape = "one" THEN ToolsField("array", <<"echo">>)
  ELSE ToolsField("array", <<"wget", "curl">>)

\* records for validation, as <<task_id, has intent, tools, the other
\* fields>>: the well-formed ones with and without the other fields, the
\* malformed ones, and the ones with a level and constraints of their own
FieldShapes ==
  {<<id, TRUE, t, x>> : id \in {1, 2}, t \in {"one", "two"},
                        x \in {"none", "all"}}
  \cup {<<0, FALSE, "missing", "none">>, <<0, TRUE, "one", "none">>,
        <<1, FALSE, "missing", "none">>, <<1, FALSE, "one", "none">>}
  \cup {<<1, TRUE, t, "none">> : t \in {"missing", "string", "empty"}}
  \cup {<<id, TRUE, "one", "some">> : id \in {1, 2}}

FieldRecord(shape) ==
  RawRecord(shape[1], 0, IF shape[2] THEN <<"list">> ELSE <<>>,
            ToolsOf(shape[3]),
            IF shape[4] = "all" THEN AllExtras
            ELSE IF shape[4] = "some" THEN SomeExtras ELSE NoExtras)

\* records for the graph, as <<task_id, parent_id>>: every id, every parent
GraphShapes == (1..MaxTasks) \X (0..MaxTasks)

GraphRecord(shape) ==
  RawRecord(shape[1], shape[2], <<"list">>, ToolsOf("one"), NoExtras)

DistinctIds(shapes) ==
  \A i, j \in 1..Len(shapes) : shapes[i][1] = shapes[j][1] => i = j

\* two chains of MaxChain records each, as <<task_id, parent_id>>: record k
\* depends on record k - 2, so the records of one depth have different parents
ChainShapes ==
  [k \in 1..(2 * MaxChain) |-> <<k, IF k > 2 THEN k - 2 ELSE 0>>]

RawArray(items) == [isArray |-> TRUE, items |-> items]

\* the segments a template is made of: a character, a brace, or the
\* placeholder of a key; no variables have the key c
Segments ==
  {<<"x">>, <<"{">>, <<"}">>, Placeholder(<<"a">>), Placeholder(<<"b">>),
   Placeholder(<<"c">>)}

RECURSIVE Concat(_)
Concat(parts) == IF parts = <<>> THEN <<>> ELSE Head(parts) \o Concat(Tail(parts))

StringValue(text) == [type |-> "string", text |-> text, items |-> <<>>]

\* the values of the variables: strings, two of them a placeholder, a
\* number and an array
Values ==
  {StringValue(<<"x">>), StringValue(Placeholder(<<"a">>)),
   StringValue(Placeholder(<<"b">>)),
   [type |-> "number", text |-> <<>>, items |-> <<7>>],
   [type |-> "array", text |-> <<>>, items |-> <<7, 0>>]}

\* the keys of the variables: strings that are no array index, which
\* Object.entries lists in the order of their insertion
Keys == {<<"a">>, <<"b">>}
NotAnArray == [isArray |-> FALSE, items |-> <<>>]

\* response texts: every short text, and JSON bodies in their wrappings
Alphabet == {"[", "]", "{", "}", ",", "m", "k", "w", "j", "s", "n", "F"}

Bodies ==
  {<<>>,
   <<"[", "{", "m", "}", "]">>,
   <<"[", "s", "{", "m", "}", ",", "{", "}", "n", "]">>,
   <<"{", "m", "}">>,
   <<"{", "k", "[", "{", "}", "]", ",", "k", "[", "{", "}", "]", "}">>,
   <<"[", "{", "w", "}", "]">>,
   <<"[", "{", "m", "}", "]", "w", "[", "{", "m", "}", "]">>,
   <<"{", "m", "}", "w", "{", "m", "}">>}

Prefixes ==
  {<<>>, <<"w", "s">>, <<"s", "n">>, <<"F", "n">>, <<"F", "j", "n">>,
   <<"w", "n", "F", "j", "s", "n", "n">>, <<"F", "s">>,
   <<"F", "n", "w", "n", "F", "n">>}

Suffixes ==
  {<<>>, <<"s", "w">>, <<"n">>, <<"n", "F">>, <<"n", "F", "n", "w">>,
   <<"w", "n", "F">>, <<"n", "F", "[", "{", "}", "]">>}

Responses ==
  SeqsUpTo(Alphabet, MaxText)
  \cup {pre \o body \o post :
          pre \in Prefixes, body \in Bodies, post \in Suffixes}

\* records of a response, and the text of an array of them: compact, or one
\* record to a line
Records ==
  {<<"{", "}">>, <<"{", "m", "}">>, <<"{", "m", ",", "m", "}">>,
   <<"{", "k", "[", "]", "}">>, <<"{", "k", "[", "{", "m", "}", "]", "}">>}

RECURSIVE JoinRecords(_, _)
JoinRecords(recs, sep) ==
  IF recs = <<>> THEN <<>>
  ELSE IF Len(recs) = 1 THEN recs[1]
  ELSE recs[1] \o sep \o JoinRecords(Tail(recs), sep)

ArrayText(recs, spaced) ==
  IF spaced
  THEN <<"[", "n">> \o JoinRecords(recs, <<",", "n">>) \o <<"n", "]">>
  ELSE <<"[">> \o JoinRecords(recs, <<",">>) \o <<"]">>

\* the four ways a response encodes an array: the JSON text alone, in a
\* fenced block (tagged json or not) after a line of prose, in prose, and as
\* the one member of an object in prose
Encodings(a, tagged) ==
  <<a,
    <<"w", "n", "F">> \o (IF tagged THEN <<"j">> ELSE <<>>) \o <<"n">> \o a
      \o <<"n", "F", "n", "w">>,
    <<"w", "s">> \o a \o <<"s", "w">>,
    <<"w", "s", "{", "k">> \o a \o <<"}", "s", "w">> >>

\* intents: the words of the planner's keyword tables and its separators
Words == {"create", "test", "list", "deploy", "and", "then", ","}

Intents == SeqsUpTo(Words, MaxIntent)

(***************************************************************************)
(* The state machine: one action per call.                                 *)
(***************************************************************************)
\* no call: nothing is on the stack
NoCall ==
  [phase |-> "idle", tasks |-> <<>>, adjList |-> EmptyMap,
   inDegree |-> EmptyMap, queue |-> <<>>, enqueued |-> <<>>, sorted |-> <<>>,
   order |-> <<>>, completed |-> {}, batches |-> <<>>, error |-> "none"]

Init ==
  /\ pc = "idle"
  /\ rawTasks = RawArray(<<>>)
  /\ config = DefaultConfig
  /\ whitelist = <<>>
  /\ tasks = <<>>
  /\ sortedTasks = <<>>
  /\ batches = <<>>
  /\ acyclic = FALSE
  /\ error = NoError
  /\ response = <<>>
  /\ extracted = <<>>
  /\ attempts = <<>>
  /\ intent = <<>>
  /\ events = <<>>
  /\ encodings = <<>>
  /\ traceId = <<>>
  /\ clock = 0
  /\ runs = <<>>
  /\ rendered = [template |-> <<>>, variables |-> <<>>, result |-> <<>>]
  /\ loop = NoCall

\* LLMParser.extractJSON(response)
ExtractJSON ==
  /\ pc = "idle"
  /\ \E resp \in Responses :
       LET r == extractJSON(resp)
       IN /\ response' = resp
          /\ extracted' = r.value
          /\ attempts' = r.tried
          /\ events' = events \o LogAll(traceId, r.events)
          /\ error' = r.error
          /\ pc' = IF r.ok THEN "extracted" ELSE "failed"
  /\ UNCHANGED <<encodings, traceId, clock, runs, rendered, loop>>
  /\ UNCHANGED <<rawTasks, config, whitelist, tasks, sortedTasks, batches,
                 acyclic, intent>>

\* LLMParser.extractJSON on each of the four encodings of one array of
\* records; a call that throws leaves <<>> as its result
ExtractEncodings ==
  /\ pc = "idle"
  /\ \E n \in 0..MaxRecords : \E recs \in [1..n -> Records] :
       \E spaced, tagged \in BOOLEAN :
         LET a == ArrayText(recs, spaced)
             e == Encodings(a, tagged)
             r == [i \in 1..4 |-> extractJSON(e[i])]
         IN /\ encodings' = [array |-> a, texts |-> e,
                             values |-> [i \in 1..4 |-> r[i].value]]
            /\ events' = events \o LogAll(traceId, r[1].events \o r[2].events
                                          \o r[3].events \o r[4].events)
            /\ pc' = "compared"
  /\ UNCHANGED <<rawTasks, config, whitelist, tasks, sortedTasks, batches,
                 acyclic, error, response, extracted, attempts, intent>>
  /\ UNCHANGED <<traceId, clock, runs, rendered, loop>>

\* LLMParser.validateTasks(rawTasks, config), in a run with this whitelist
ValidateTasksCall(raw, cfg, wl) ==
  LET r == validateTasks(raw, cfg)
  IN /\ rawTasks' = raw
     /\ config' = cfg
     /\ whitelist' = wl
     /\ tasks' = r.tasks
     /\ error' = r.error
     /\ events' = IF r.ok
                  THEN Append(events,
                              log(traceId, LogEntry("info", "Tasks validated",
                                                    "L2", <<Len(r.tasks)>>)))
                  ELSE events
     /\ pc' = IF r.ok THEN "validated" ELSE "failed"

\* the raw input is a list of up to MaxRaw field records in any context, a
\* list of graph records in the default context (MaxTasks records of distinct
\* ids, or fewer records of any ids), the records of two chains in any
\* order, or no array
ValidateTasks ==
  /\ pc = "idle"
  /\ \/ \E n \in 0..MaxRaw : \E shapes \in [1..n -> FieldShapes] :
          \E c \in Contexts :
            ValidateTasksCall(RawArray([i \in 1..n |-> FieldRecord(shapes[i])]),
                              c.cfg, c.wl)
     \/ \E n \in 1..MaxTasks : \E shapes \in [1..n -> GraphShapes] :
          /\ DistinctIds(shapes) \/ n < MaxTasks
          /\ ValidateTasksCall(RawArray([i \in 1..n |-> GraphRecord(shapes[i])]),
                               DefaultConfig, DefaultWhitelist)
     \/ \E order \in Permutations(1..(2 * MaxChain)) :
          ValidateTasksCall(
            RawArray([i \in 1..(2 * MaxChain) |->
                        GraphRecord(ChainShapes[order[i]])]),
            DefaultConfig, DefaultWhitelist)
     \/ ValidateTasksCall(NotAnArray, DefaultConfig, DefaultWhitelist)
  /\ UNCHANGED <<encodings, traceId, clock, runs, rendered, loop>>
  /\ UNCHANGED <<sortedTasks, batches, acyclic, response, extracted,
                 attempts, intent>>

\* LLMParser.validateWhitelist(tasks, whitelist)
ValidateWhitelist ==
  /\ pc = "validated"
  /\ LET r == validateWhitelist(tasks, whitelist)
     IN /\ error' = r.error
        /\ events' = IF r.ok
                     THEN Append(events,
                                 log(traceId,
                                     LogEntry("info",
                                              "Whitelist validation passed",
                                              "L2", <<>>)))
                     ELSE events
        /\ pc' = IF r.ok THEN "whitelisted" ELSE "failed"
  /\ UNCHANGED <<encodings, traceId, clock, runs, rendered, loop>>
  /\ UNCHANGED <<rawTasks, config, whitelist, tasks, sortedTasks, batches,
                 acyclic, response, extracted, attempts, intent>>

\* the entries buildDAG and topologicalSort log
SortEvents(ts) ==
  LET dag == buildDAG(ts)
      r   == topologicalSort(ts)
  IN <<LogEntry("info", "DAG built", "L2", <<Len(dag.nodes), Len(dag.edges)>>),
       IF r.ok
       THEN LogEntry("info", "Topological sort completed", "L2",
                     [i \in 1..Len(r.tasks) |-> r.tasks[i].task_id])
       ELSE LogEntry("error", "Cycle detected in task graph", "L2",
                     r.error.ids)>>

\* DAGBuilder.validateNoCycles(tasks)
ValidateNoCycles ==
  /\ pc = "whitelisted"
  /\ acyclic' = validateNoCycles(tasks)
  /\ events' = events \o LogAll(traceId, SortEvents(tasks))
  /\ pc' = "checked"
  /\ UNCHANGED <<encodings, traceId, clock, runs, rendered, loop>>
  /\ UNCHANGED <<rawTasks, config, whitelist, tasks, sortedTasks, batches,
                 error, response, extracted, attempts, intent>>

\* DAGBuilder.topologicalSort(tasks)
TopologicalSort ==
  /\ pc = "checked"
  /\ LET r == topologicalSort(tasks)
     IN /\ sortedTasks' = r.tasks
        /\ error' = r.error
        /\ pc' = IF r.ok THEN "sorted" ELSE "failed"
  /\ events' = events \o LogAll(traceId, SortEvents(tasks))
  /\ UNCHANGED <<encodings, traceId, clock, runs, rendered, loop>>
  /\ UNCHANGED <<rawTasks, config, whitelist, tasks, batches, acyclic,
                 response, extracted, attempts, intent>>

\* DAGBuilder.getParallelBatches(tasks)
GetParallelBatches ==
  /\ pc \in {"checked", "sorted"}
  /\ LET r == getParallelBatches(tasks)
     IN /\ batches' = r.batches
        /\ error' = r.error
        /\ pc' = IF r.ok THEN "batched" ELSE "failed"
        /\ events' = events \o LogAll(traceId, SortEvents(tasks)
                     \o IF r.ok
                        THEN <<LogEntry("info", "Parallel batches created",
                                        "L2", <<Len(r.batches)>>)>>
                        ELSE <<>>)
  /\ UNCHANGED <<encodings, traceId, clock, runs, rendered, loop>>
  /\ UNCHANGED <<rawTasks, config, whitelist, tasks, sortedTasks, acyclic,
                 response, extracted, attempts, intent>>

\* Coordinator.createPlan(intent, whitelistTools)
CreatePlan ==
  /\ pc = "idle"
  /\ \E text \in Intents, c \in Contexts :
       LET plan == createPlan(text, c.wl, c.cfg)
       IN /\ intent' = text
          /\ whitelist' = c.wl
          /\ config' = c.cfg
          /\ tasks' = plan
          /\ events' = events \o LogAll(traceId,
               <<LogEntry("info", "L2 Coordinator: Creating plan", "L2", text),
                 LogEntry("info", "L2 Coordinator: Plan created", "L2",
                          <<Len(plan)>>)>>)
          /\ pc' = "planned"
  /\ UNCHANGED <<encodings, traceId, clock, runs, rendered, loop>>
  /\ UNCHANGED <<rawTasks, sortedTasks, batches, acyclic, error, response,
                 extracted, attempts>>

(***************************************************************************)
(* The logger and the run manager: one action per call, and the passing of *)
(* time.                                                                   *)
(***************************************************************************)
TraceIds == {"", "run-1", "run-2"}
RunIds == {"run-1", "run-2"}
BasePath == "./runs"

pipelineVars == <<pc, rawTasks, config, whitelist, tasks, sortedTasks, batches,
                  acyclic, error, response, extracted, attempts, intent,
                  encodings, rendered, loop>>

\* setTraceId(id)
SetTraceId ==
  /\ \E id \in TraceIds : traceId' = setTraceId(id)
  /\ UNCHANGED <<pipelineVars, events, clock, runs>>

\* log('info', 'Test message', { key: 'value' })
Log ==
  /\ Len(events) < MaxEvents
  /\ events' = Append(events,
                      log(traceId, LogEntry("info", "Test message", "L1",
                                            <<"value">>)))
  /\ UNCHANGED <<pipelineVars, traceId, clock, runs>>

\* time passes: half a second, or a second
Tick ==
  /\ \E d \in {MsPerSecond \div 2, MsPerSecond} :
       /\ clock + d <= MaxClockMs
       /\ clock' = clock + d
  /\ UNCHANGED <<pipelineVars, traceId, events, runs>>

\* new RunManager(BasePath).createRunDirectory(runId): mkdirSync with
\* recursive: true accepts a directory that is there already
CreateRunDirectory ==
  /\ Len(runs) < MaxRuns
  /\ Len(events) < MaxEvents
  /\ \E runId \in RunIds :
       LET dir == createRunDirectory(BasePath, runId, clock)
       IN /\ runs' = Append(runs, dir)
          /\ events' = Append(events,
                              log(traceId,
                                  LogEntry("info", "Run directory created",
                                           "L1", dir.root)))
  /\ UNCHANGED <<pipelineVars, traceId, clock>>

NextRun ==
  \/ SetTraceId
  \/ Log
  \/ Tick
  \/ CreateRunDirectory

SpecRun == Init /\ [][NextRun]_vars

\* PromptTemplate.render(template, variables), the variables an object with
\* up to MaxVariables keys
Render ==
  /\ pc = "idle"
  /\ pc' = "rendered"
  /\ \E n \in 0..MaxTemplate : \E parts \in [1..n -> Segments] :
       \E m \in 0..MaxVariables : \E ks \in [1..m -> Keys] :
         \E vs \in [1..m -> Values] :
           /\ \A i, j \in 1..m : ks[i] = ks[j] => i = j
           /\ LET template  == Concat(parts)
                  variables == [i \in 1..m |-> [key |-> ks[i], value |-> vs[i]]]
              IN rendered' = [template |-> template, variables |-> variables,
                              result |-> render(template, variables)]
  /\ UNCHANGED <<rawTasks, config, whitelist, tasks, sortedTasks, batches,
                 acyclic, error, response, extracted, attempts, intent, events,
                 encodings, traceId, clock, runs, loop>>

NextRender == Render

SpecRender == Init /\ [][NextRender]_vars

(***************************************************************************)
(* A call of getParallelBatches, one step per iteration of the loops of    *)
(* topologicalSort and getParallelBatches.                                 *)
(***************************************************************************)
otherVars == <<pc, rawTasks, config, whitelist, tasks, sortedTasks, batches,
               acyclic, error, response, extracted, attempts, intent, events,
               encodings, traceId, clock, runs, rendered>>

\* the call, up to the while loop of topologicalSort: the maps are built and
\* the nodes without an incoming edge are in the queue
StartCall(ts) ==
  LET dag == buildDAG(ts)
      m0  == InitMaps(dag.nodes, EmptyMap, EmptyMap)
      m1  == BuildGraph(dag.edges, m0.adjList, m0.inDegree)
  IN loop' = [NoCall EXCEPT !.phase = "sorting", !.tasks = ts,
                            !.adjList = m1.adjList, !.inDegree = m1.inDegree,
                            !.queue = ZeroInDegree(m1.inDegree),
                            !.enqueued = ZeroInDegree(m1.inDegree)]

\* the ids of the records are numbered in the order of their first
\* appearance (the code compares ids for equality only)
FirstSeenOrder(shapes) ==
  \A i \in 1..Len(shapes) :
    \/ shapes[i][1] = 1
    \/ \E j \in 1..(i - 1) : shapes[j][1] >= shapes[i][1] - 1

\* getParallelBatches(tasks) is called with tasks that validateTasks made:
\* up to MaxTasks tasks of any ids and parents, or the tasks of two chains
Call ==
  /\ loop.phase = "idle"
  /\ \/ \E n \in 0..MaxTasks : \E shapes \in [1..n -> GraphShapes] :
          /\ FirstSeenOrder(shapes)
          /\ StartCall([i \in 1..n |->
                          EnrichTask(GraphRecord(shapes[i]), DefaultConfig)])
     \/ \E order \in Permutations(1..(2 * MaxChain)) :
          StartCall([i \in 1..(2 * MaxChain) |->
                       EnrichTask(GraphRecord(ChainShapes[order[i]]),
                                  DefaultConfig)])
  /\ UNCHANGED otherVars

\* one iteration of while (queue.length > 0) of topologicalSort
SortStep ==
  /\ loop.phase = "sorting"
  /\ loop.queue # <<>>
  /\ LET current == Head(loop.queue)
         r == Relax(MapGetOr(loop.adjList, current, <<>>), loop.inDegree,
                    Tail(loop.queue))
     IN loop' = [loop EXCEPT !.queue = r.queue, !.inDegree = r.inDegree,
                             !.sorted = Append(loop.sorted, current),
                             !.enqueued = loop.enqueued
                               \o SubSeq(r.queue, Len(loop.queue), Len(r.queue))]
  /\ UNCHANGED otherVars

\* the queue is empty: topologicalSort throws, or returns the tasks in order
SortEnd ==
  /\ loop.phase = "sorting"
  /\ loop.queue = <<>>
  /\ IF Len(loop.sorted) # Len(loop.tasks)
     THEN loop' = [loop EXCEPT !.phase = "failed", !.error = "cycle"]
     ELSE LET taskMap == TaskMap(loop.tasks, EmptyMap)
          IN loop' = [loop EXCEPT
                        !.phase = "batching",
                        !.order = [i \in 1..Len(loop.sorted) |->
                                     taskMap.val[loop.sorted[i]]]]
  /\ UNCHANGED otherVars

\* one iteration of while (completed.size < sorted.length)
BatchStep ==
  /\ loop.phase = "batching"
  /\ Cardinality(loop.completed) < Len(loop.order)
  /\ LET batch == NextBatch(loop.order, loop.completed)
     IN IF Len(batch) = 0
        THEN loop' = [loop EXCEPT !.phase = "failed", !.error = "consistency"]
        ELSE loop' = [loop EXCEPT
                        !.completed = Complete(loop.completed, batch),
                        !.batches = Append(loop.batches, batch)]
  /\ UNCHANGED otherVars

\* every task is completed: getParallelBatches returns the batches
BatchEnd ==
  /\ loop.phase = "batching"
  /\ ~(Cardinality(loop.completed) < Len(loop.order))
  /\ loop' = [loop EXCEPT !.phase = "returned"]
  /\ UNCHANGED otherVars

NextLoop ==
  \/ Call
  \/ SortStep
  \/ SortEnd
  \/ BatchStep
  \/ BatchEnd

\* the code is sequential: once called, a loop that can take a step takes it
SpecLoop ==
  Init /\ [][NextLoop]_vars
       /\ WF_vars(SortStep \/ SortEnd \/ BatchStep \/ BatchEnd)

Next ==
  \/ ExtractJSON
  \/ ExtractEncodings
  \/ ValidateTasks
  \/ ValidateWhitelist
  \/ ValidateNoCycles
  \/ TopologicalSort
  \/ GetParallelBatches
  \/ CreatePlan

Spec == Init /\ [][Next]_vars

(***************************************************************************)
(* Properties.                                                             *)
(***************************************************************************)
Ids(ts) == {ts[i].task_id : i \in 1..Len(ts)}

Count(ts, t) == Cardinality({i \in 1..Len(ts) : ts[i] = t})

IsPermutation(a, b) ==
  /\ Len(a) = Len(b)
  /\ \A t \in Range(a) \cup Range(b) : Count(a, t) = Count(b, t)

\* the ids that the tasks with an id in S name as parent
ParentsOf(ts, S) ==
  {ts[i].parent_id : i \in {j \in 1..Len(ts) :
                              ts[j].task_id \in S /\ ts[j].parent_id # 0}}

RECURSIVE Ancestors(_, _, _)
Ancestors(ts, S, n) ==
  IF n = 0 THEN S
  ELSE Ancestors(ts, S \cup ParentsOf(ts, S), n - 1)

\* id is its own ancestor under parent_id
OnCycle(ts, id) == id \in Ancestors(ts, ParentsOf(ts, {id}), Len(ts))

HasCycle(ts) == \E id \in Ids(ts) : OnCycle(ts, id)

SortFailed == pc = "failed" /\ error.kind = "cycle"

\* the batch that holds the task with this id; 0 when none does
BatchOf(bs, id) ==
  IF \E k \in 1..Len(bs) : id \in Ids(bs[k])
  THEN CHOOSE k \in 1..Len(bs) : id \in Ids(bs[k])
  ELSE 0

\* depth in the parent forest, for a list with distinct ids and no cycle
RECURSIVE Depth(_, _, _)
Depth(ts, id, fuel) ==
  LET t == CHOOSE x \in Range(ts) : x.task_id = id
  IN IF t.parent_id = 0 \/ fuel = 0 THEN 0
     ELSE 1 + Depth(ts, t.parent_id, fuel - 1)

\* C1: a plan that passed validateTasks, validateWhitelist and
\* topologicalSort has pairwise distinct task ids, every task has a non-empty
\* tools list inside the whitelist, and every parent_id is null or the id of
\* a task of the plan
C1_ValidatedPlan ==
  pc = "sorted" =>
    /\ \A i, j \in 1..Len(sortedTasks) :
         sortedTasks[i].task_id = sortedTasks[j].task_id => i = j
    /\ \A i \in 1..Len(sortedTasks) :
         /\ Len(sortedTasks[i].tools) > 0
         /\ \A tool \in Range(sortedTasks[i].tools) : Includes(whitelist, tool)
         /\ \/ sortedTasks[i].parent_id = 0
            \/ sortedTasks[i].parent_id \in Ids(sortedTasks)

C1_Witness ==
  /\ pc = "sorted"
  /\ Len(sortedTasks) = 3
  /\ \E i \in 1..3 : sortedTasks[i].parent_id # 0

\* C2: the result of topologicalSort is a permutation of its input in which
\* every task with a parent comes strictly after that parent
C2_SortIsOrderedPermutation ==
  pc = "sorted" =>
    /\ IsPermutation(sortedTasks, tasks)
    /\ \A i \in 1..Len(sortedTasks) :
         sortedTasks[i].parent_id # 0 =>
           \E j \in 1..(i - 1) :
             sortedTasks[j].task_id = sortedTasks[i].parent_id

C2_Witness ==
  /\ pc = "sorted"
  /\ Len(tasks) = 3
  /\ sortedTasks # tasks
  /\ \A i \in 1..3 : (tasks[i].parent_id = 0) = (i = 3)

\* C3: when the parent_id relation has a cycle, topologicalSort fails; its
\* error lists exactly the ids of the tasks absent from the sorted result,
\* and every id on a cycle is among them
C3_CycleFailsWithUnsortedIds ==
  /\ (pc \in {"sorted", "batched"} => ~HasCycle(tasks))
  /\ SortFailed =>
       /\ \A i \in 1..Len(error.ids) :
             error.ids[i] \notin Range(SortedIds(tasks))
       /\ \A id \in Ids(tasks) :
             id \notin Range(SortedIds(tasks)) => id \in Range(error.ids)
       /\ \A id \in Ids(tasks) : OnCycle(tasks, id) => id \in Range(error.ids)

C3_Witness ==
  /\ SortFailed
  /\ Len(tasks) = 2
  /\ tasks[1].parent_id = tasks[2].task_id
  /\ tasks[2].parent_id = tasks[1].task_id
  /\ tasks[1].task_id # tasks[2].task_id
  /\ Range(error.ids) = Ids(tasks)

\* C4: in the batches of getParallelBatches a task with a parent is in a
\* batch of strictly larger index than the batch of its parent
C4_ParentInEarlierBatch ==
  pc = "batched" =>
    \A k \in 1..Len(batches) : \A i \in 1..Len(batches[k]) :
      batches[k][i].parent_id # 0 =>
        /\ \E k2 \in 1..(k - 1) : batches[k][i].parent_id \in Ids(batches[k2])
        /\ \A k3 \in k..Len(batches) :
             batches[k][i].parent_id \notin Ids(batches[k3])

C4_Witness ==
  /\ pc = "batched"
  /\ Len(batches) = 3
  /\ tasks[1].parent_id # 0

\* C5: batch k, counted from 0, holds exactly the tasks of depth k in the
\* parent forest, each once
C5_BatchIsDepthLevel ==
  pc = "batched" =>
    /\ \A k \in 1..Len(batches) :
         /\ Range(batches[k]) =
              {t \in Range(tasks) : Depth(tasks, t.task_id, Len(tasks)) = k - 1}
         /\ Cardinality(Range(batches[k])) = Len(batches[k])
         /\ Len(batches[k]) > 0
    /\ \A t \in Range(tasks) : Depth(tasks, t.task_id, Len(tasks)) < Len(batches)

\* a parent with two children: the children share the second batch
C5_Witness ==
  /\ pc = "batched"
  /\ Len(batches) = 2
  /\ Len(batches[1]) = 1
  /\ Len(batches[2]) = 2

WhitelistFailed == pc = "failed" /\ error.kind = "whitelist"

AllAllowed(t, wl) == \A tool \in Range(t.tools) : Includes(wl, tool)

\* C6: validateWhitelist fails exactly when some tool of some task is not in
\* the whitelist; the error names the first offending task, in it the first
\* disallowed tool, and the whole whitelist; a failure leaves nothing admitted
C6_WhitelistAllOrNothing ==
  /\ pc \in {"whitelisted", "checked", "sorted", "batched"} =>
       \A i \in 1..Len(tasks) : AllAllowed(tasks[i], whitelist)
  /\ WhitelistFailed =>
       /\ \E i \in 1..Len(tasks) : \E j \in 1..Len(tasks[i].tools) :
            /\ \A i2 \in 1..(i - 1) : AllAllowed(tasks[i2], whitelist)
            /\ \A j2 \in 1..(j - 1) : Includes(whitelist, tasks[i].tools[j2])
            /\ ~Includes(whitelist, tasks[i].tools[j])
            /\ error.num = tasks[i].task_id
            /\ error.tool = tasks[i].tools[j]
       /\ error.allowed = whitelist
       /\ sortedTasks = <<>>
       /\ batches = <<>>

\* the second task offends, with its second tool
C6_Witness ==
  /\ WhitelistFailed
  /\ Len(tasks) = 2
  /\ AllAllowed(tasks[1], whitelist)
  /\ tasks[1].task_id # tasks[2].task_id
  /\ Len(tasks[2].tools) = 2
  /\ error.tool = tasks[2].tools[2]

ValidationFailed == pc = "failed" /\ error.kind \in {"validation", "not_array"}

ValidationPassed ==
  \/ pc \in {"validated", "whitelisted", "checked", "sorted", "batched"}
  \/ pc = "failed" /\ error.kind \in {"whitelist", "cycle", "consistency"}

NoTaskId(raw) == raw.task_id = 0
NoIntent(raw) == raw.intent = <<>>
NoTools(raw) == raw.tools.kind # "array" \/ raw.tools.items = <<>>
Malformed(raw) == NoTaskId(raw) \/ NoIntent(raw) \/ NoTools(raw)

\* C7: validateTasks fails, with no task returned, when the input is no array
\* or a record lacks task_id, intent or a non-empty tools list; the error
\* names the first such record (by index when task_id is missing, else by
\* task_id) and its first such field in the order task_id, intent, tools
C7_ValidationRejects ==
  /\ ValidationPassed =>
       /\ rawTasks.isArray
       /\ \A i \in 1..Len(rawTasks.items) : ~Malformed(rawTasks.items[i])
  /\ ValidationFailed =>
       /\ tasks = <<>>
       /\ ~rawTasks.isArray => error.kind = "not_array"
       /\ rawTasks.isArray =>
            \E i \in 1..Len(rawTasks.items) :
              LET raw == rawTasks.items[i]
              IN /\ \A i2 \in 1..(i - 1) : ~Malformed(rawTasks.items[i2])
                 /\ Malformed(raw)
                 /\ error.kind = "validation"
                 /\ NoTaskId(raw) =>
                      /\ error.field = "task_id"
                      /\ error.ref = "index"
                      /\ error.num = i - 1
                 /\ ~NoTaskId(raw) =>
                      /\ error.ref = "task_id"
                      /\ error.num = raw.task_id
                      /\ error.field = IF NoIntent(raw) THEN "intent"
                                       ELSE "tools"

\* the second record has an id but neither intent nor tools
C7_Witness ==
  /\ ValidationFailed
  /\ Len(rawTasks.items) = 2
  /\ ~Malformed(rawTasks.items[1])
  /\ ~NoTaskId(rawTasks.items[2])
  /\ NoIntent(rawTasks.items[2])
  /\ NoTools(rawTasks.items[2])
  /\ error.field = "intent"

\* C8: a valid record that omits constraints gets max_duration_sec and
\* max_retries equal to the policy's values (0 included), concurrency 1 and
\* the sandbox modes of the policy
C8_DefaultsEqualPolicy ==
  pc = "validated" =>
    \A i \in 1..Len(tasks) :
      rawTasks.items[i].constraints = <<>> =>
        tasks[i].constraints =
          [max_duration_sec |-> config.policies.max_task_duration_sec,
           max_retries      |-> config.retries.max,
           concurrency      |-> 1,
           sandbox |-> [fs  |-> config.policies.default_fs_mode,
                        net |-> IF config.policies.allow_network
                                THEN "allow" ELSE "deny"]]

\* a task as the pipeline stamps it
Fresh(t) ==
  /\ t.state = "planned"
  /\ t.retries = 0
  /\ t.logs = <<>>
  /\ t.artifacts = <<>>
  /\ t.metrics = <<>>
  /\ t.timestamps.started_at = <<>>
  /\ t.timestamps.completed_at = <<>>

\* C9: every task the pipeline produces (by validateTasks, by createPlan) is
\* planned, with retries 0, empty logs, artifacts and metrics, and neither
\* started_at nor completed_at, whatever the raw record said
C9_TasksArePlanned ==
  /\ \A i \in 1..Len(tasks) : Fresh(tasks[i])
  /\ \A i \in 1..Len(sortedTasks) : Fresh(sortedTasks[i])
  /\ \A k \in 1..Len(batches) : \A i \in 1..Len(batches[k]) :
       Fresh(batches[k][i])

\* the raw record said done, with retries and logs
C9_Witness ==
  /\ pc = "validated"
  /\ Len(tasks) = 2
  /\ rawTasks.items[2].state = "done"
  /\ rawTasks.items[2].retries > 0
  /\ rawTasks.items[2].logs # <<>>
  /\ rawTasks.items[2].timestamps.started_at # <<>>

ExtractionFailed == pc = "failed" /\ error.kind = "extraction"

AttemptNames == <<"direct", "code_block", "array", "object">>

\* what each of the four attempts hands to JSON.parse: <<text>>, or <<>> when
\* its pattern does not match
Candidates(resp) ==
  <<<<Trim(resp)>>,
    IF CodeBlockMatch(resp) = <<>> THEN <<>>
    ELSE <<Trim(CodeBlockMatch(resp)[1])>>,
    ArrayMatch(resp),
    ObjectMatch(resp)>>

Parses(resp, k) ==
  /\ Candidates(resp)[k] # <<>>
  /\ JSONparse(Candidates(resp)[k][1]) # <<>>

\* the attempts among the first n whose pattern matched, in order
RECURSIVE MatchedUpTo(_, _)
MatchedUpTo(resp, n) ==
  IF n = 0 THEN <<>>
  ELSE MatchedUpTo(resp, n - 1)
       \o IF Candidates(resp)[n] # <<>> THEN <<AttemptNames[n]>> ELSE <<>>

\* C10: extractJSON tries direct parse, fenced block, array pattern, object
\* pattern in this order, returns the value of the first attempt that parses
\* and tries none after it, goes on after an attempt that matched but did not
\* parse, and fails exactly when all four fail
C10_FirstParsingAttemptWins ==
  /\ pc = "extracted" =>
       \E k \in 1..4 :
         /\ Parses(response, k)
         /\ \A j \in 1..(k - 1) : ~Parses(response, j)
         /\ extracted = JSONparse(Candidates(response)[k][1])
         /\ attempts = MatchedUpTo(response, k)
  /\ ExtractionFailed =>
       /\ \A k \in 1..4 : ~Parses(response, k)
       /\ attempts = MatchedUpTo(response, 4)
       /\ extracted = <<>>

\* the fenced block and the array pattern match and do not parse, the object
\* pattern parses
C10_Witness ==
  /\ pc = "extracted"
  /\ attempts = AttemptNames
  /\ Len(events) = 2
  /\ \A i \in 1..2 : events[i].level = "warn"

\* C11: when extraction fails, the raised error carries an excerpt of the
\* response of at most ExcerptLength characters (the start of the response),
\* and neither the error nor an event of the failure holds the whole of a
\* response longer than that
C11_ErrorCarriesBoundedExcerpt ==
  ExtractionFailed =>
    /\ error.excerpt = Slice(response, ExcerptLength)
    /\ Len(response) > ExcerptLength =>
         /\ error.excerpt # response
         /\ \A i \in 1..Len(events) : events[i].payload # response

\* the value that JSON.parse gives for the text of an array
ValueOf(a) == JSONparse(a)

Logged(message) == {i \in 1..Len(events) : events[i].message = message}

\* C13: a plan that createPlan returns went through validate, whitelist
\* check, cycle check and topological sort in this order (each stage logs as
\* it passes), so it passes their checks and is in sorted order; a failing
\* stage returns no plan
C13_PlanWentThroughStages ==
  pc = "planned" =>
    /\ \E i \in Logged("Tasks validated") :
         \E j \in Logged("Whitelist validation passed") :
           \E k \in Logged("Topological sort completed") : i < j /\ j < k
    /\ \A i \in 1..Len(tasks) : tasks[i].tools # <<>>
    /\ validateWhitelist(tasks, whitelist).ok
    /\ topologicalSort(tasks).ok
    /\ topologicalSort(tasks).tasks = tasks

\* C14: every task of a plan that createPlan returns has a non-empty tools
\* list inside the whitelist
C14_PlannedToolsInWhitelist ==
  pc = "planned" =>
    \A i \in 1..Len(tasks) :
      /\ tasks[i].tools # <<>>
      /\ \A tool \in Range(tasks[i].tools) : Includes(whitelist, tool)

\* C15: validateNoCycles propagates no error, and it returned true exactly
\* when topologicalSort on the same tasks then succeeds, false exactly when
\* it then fails
C15_NoCyclesMirrorsSort ==
  /\ pc = "checked" => error = NoError
  /\ pc \in {"sorted", "batched"} => acyclic
  /\ SortFailed => ~acyclic

\* validateNoCycles said false on a dangling parent, and the sort then failed
C15_Witness ==
  /\ SortFailed
  /\ ~acyclic
  /\ Len(tasks) = 2
  /\ ~HasCycle(tasks)
  /\ \E i \in 1..Len(events) :
       events[i].message = "Cycle detected in task graph"

Carried(store) ==
  IF store = <<>> \/ store[1] = "" THEN "unknown" ELSE store[1]

C17_RunDirectoriesDistinct ==
  \A i, j \in 1..Len(runs) :
    runs[i].runId # runs[j].runId /\ runs[i].basePath = runs[j].basePath
      => runs[i].root # runs[j].root

HasDuplicateId(ts) ==
  \E i, j \in 1..Len(ts) : i # j /\ ts[i].task_id = ts[j].task_id

HasDanglingParent(ts) ==
  \E i \in 1..Len(ts) : ts[i].parent_id # 0 /\ ts[i].parent_id \notin Ids(ts)

\* C18, as stated: topologicalSort fails only on a cycle (a task that is its
\* own parent included) or on two tasks with one id
C18_SortFailsOnlyOnCycleOrDuplicate ==
  SortFailed => HasCycle(tasks) \/ HasDuplicateId(tasks)

\* C18, amended: topologicalSort fails exactly on a cycle, on two tasks with
\* one id, or on a parent_id that names no task; else it returns an order
C18_SortFailsOnMalformedInput ==
  /\ SortFailed =>
       HasCycle(tasks) \/ HasDuplicateId(tasks) \/ HasDanglingParent(tasks)
  /\ pc \in {"sorted", "batched"} =>
       /\ ~HasCycle(tasks)
       /\ ~HasDuplicateId(tasks)
       /\ ~HasDanglingParent(tasks)
       /\ Len(SortedIds(tasks)) = Len(tasks)

\* a root, and a task whose parent is no task: only the latter is unsorted
C18_Witness ==
  /\ SortFailed
  /\ Len(tasks) = 2
  /\ ~HasCycle(tasks)
  /\ ~HasDuplicateId(tasks)
  /\ tasks[1].parent_id = 0
  /\ tasks[2].parent_id \notin Ids(tasks) \cup {0}
  /\ error.ids = <<tasks[2].task_id>>

\* C19: getParallelBatches never fails with the consistency error: it
\* fails with the error of topologicalSort or returns batches, none empty
C19_NoConsistencyError ==
  /\ error.kind # "consistency"
  /\ pc = "batched" => \A k \in 1..Len(batches) : batches[k] # <<>>
  /\ pc = "batched" => topologicalSort(tasks).ok

\* two roots and a child: two rounds of the loop, each with a runnable task
C19_Witness ==
  /\ pc = "batched"
  /\ Len(tasks) = 3
  /\ Len(batches) = 2
  /\ Len(batches[1]) = 2
  /\ Len(batches[2]) = 1

\* the place of the task with this id in the sorted tasks
PlaceOf(id) == CHOOSE k \in 1..Len(sortedTasks) : sortedTasks[k].task_id = id

\* C20: topologicalSort keeps the input order among the roots and among the
\* children of one parent
C20_TiesKeepInputOrder ==
  pc = "sorted" =>
    \A i, j \in 1..Len(tasks) :
      i < j /\ tasks[i].parent_id = tasks[j].parent_id =>
        PlaceOf(tasks[i].task_id) < PlaceOf(tasks[j].task_id)

\* two children of the first task, the one with the larger id first
C20_Witness ==
  /\ pc = "sorted"
  /\ Len(tasks) = 3
  /\ tasks[2].parent_id = tasks[1].task_id
  /\ tasks[3].parent_id = tasks[1].task_id
  /\ tasks[2].task_id > tasks[3].task_id
  /\ sortedTasks = tasks

\* the place of the task with this id in a list of tasks of distinct ids
IndexIn(ts, id) == CHOOSE k \in 1..Len(ts) : ts[k].task_id = id

\* the tasks of every batch stand in the order they have in ts
KeepsInputOrder(bs, ts) ==
  \A k \in 1..Len(bs) : \A i, j \in 1..Len(bs[k]) :
    i < j => IndexIn(ts, bs[k][i].task_id) < IndexIn(ts, bs[k][j].task_id)

\* C21 as stated: within every batch returned by getParallelBatches, the
\* tasks appear in the same relative order as in the input array
C21_BatchesKeepInputOrder ==
  pc = "batched" => KeepsInputOrder(batches, tasks)

\* C21: within every batch returned by getParallelBatches, the tasks appear
\* in the same relative order as in the result of topologicalSort; tasks of
\* one batch with the same parent_id appear in the order of the input array
C21_BatchesKeepSortedOrder ==
  pc = "batched" =>
    /\ KeepsInputOrder(batches, topologicalSort(tasks).tasks)
    /\ \A k \in 1..Len(batches) : \A i, j \in 1..Len(batches[k]) :
         i < j /\ batches[k][i].parent_id = batches[k][j].parent_id =>
           IndexIn(tasks, batches[k][i].task_id)
             < IndexIn(tasks, batches[k][j].task_id)

\* two roots, and a child of each: the child of the second root stands
\* before the child of the first root in the input, and after it in the batch
C21_Witness ==
  /\ pc = "batched"
  /\ Len(tasks) = 4
  /\ Len(batches) = 2
  /\ Len(batches[2]) = 2
  /\ batches[2][1].parent_id # batches[2][2].parent_id
  /\ IndexIn(tasks, batches[2][1].task_id)
       > IndexIn(tasks, batches[2][2].task_id)

\* the fields of the constraints of a task
ConstraintFields == {"max_duration_sec", "max_retries", "concurrency", "sandbox"}

\* the constraints that the policy gives to a task that has none of its own
PolicyDefault(cfg) ==
  [max_duration_sec |-> cfg.policies.max_task_duration_sec,
   max_retries      |-> cfg.retries.max,
   concurrency      |-> 1,
   sandbox |-> [fs  |-> cfg.policies.default_fs_mode,
                net |-> IF cfg.policies.allow_network THEN "allow" ELSE "deny"]]

\* C22: every task returned by validateTasks has a level of 1, 2 or 3 and
\* constraints with max_duration_sec, max_retries, concurrency and sandbox,
\* each the record's own when the record supplies it and the policy default
\* otherwise, with sandbox.fs 'read-only' or 'rw' and sandbox.net 'allow' or
\* 'deny'
C22_TasksConformToShape ==
  pc = "validated" =>
    \A i \in 1..Len(tasks) :
      LET t   == tasks[i]
          own == rawTasks.items[i].constraints
      IN /\ t.level \in {1, 2, 3}
         /\ DOMAIN t.constraints = ConstraintFields
         /\ \A f \in ConstraintFields :
              t.constraints[f] = IF own # <<>> /\ f \in DOMAIN own[1]
                                 THEN own[1][f]
                                 ELSE PolicyDefault(config)[f]
         /\ t.constraints.sandbox.fs \in {"read-only", "rw"}
         /\ t.constraints.sandbox.net \in {"allow", "deny"}

\* C23: a successful validateTasks returns one task per raw record, in the
\* order of the records, with the record's task_id, intent, tools and (when
\* the record has them) inputs
C23_RecordsPassThrough ==
  pc = "validated" =>
    /\ rawTasks.isArray
    /\ Len(tasks) = Len(rawTasks.items)
    /\ \A i \in 1..Len(tasks) :
         LET raw == rawTasks.items[i]
         IN /\ tasks[i].task_id = raw.task_id
            /\ tasks[i].intent = raw.intent
            /\ tasks[i].tools = raw.tools.items
            /\ raw.inputs # <<>> => tasks[i].inputs = raw.inputs[1]

\* two records of different ids, the first with inputs of its own
C23_Witness ==
  /\ pc = "validated"
  /\ Len(tasks) = 2
  /\ tasks[1].task_id = 2
  /\ tasks[2].task_id = 1
  /\ rawTasks.items[1].inputs # <<>>
  /\ tasks[1].inputs.args = <<"-la">>
  /\ tasks[2].inputs = DefaultInputs

\* C24: validateWhitelist, validateNoCycles, topologicalSort and
\* getParallelBatches (with the buildDAG call of the sort) leave the task
\* array and every task as validateTasks made them; the sorted sequence and
\* the batches they return hold tasks of that array, unchanged
C24_LaterStagesKeepTasks ==
  [][(pc \in {"validated", "whitelisted", "checked", "sorted"}) =>
       (/\ tasks' = tasks
        /\ Range(sortedTasks') \subseteq Range(tasks)
        /\ \A k \in 1..Len(batches') :
             Range(batches'[k]) \subseteq Range(tasks))]_vars

\* a plan that went through every stage, sorted into another order than the
\* one it was given in
C24_Witness ==
  /\ pc = "batched"
  /\ Len(tasks) = 3
  /\ Len(sortedTasks) = 3
  /\ sortedTasks # tasks
  /\ Len(batches) = 3
  /\ \A i \in 1..3 : tasks[i].state = "planned" /\ batches[i][1] = sortedTasks[i]

\* the text with every placeholder of a key of the variables replaced by
\* the value of the key, in one pass from the left; what a value brings in
\* is not looked at again
RECURSIVE Substitute(_, _)
Substitute(text, variables) ==
  IF text = <<>> THEN <<>>
  ELSE LET at == {i \in 1..Len(variables) :
                    IsPrefix(Placeholder(variables[i].key), text)}
       IN IF at = {}
          THEN <<Head(text)>> \o Substitute(Tail(text), variables)
          ELSE LET i == CHOOSE x \in at : TRUE
               IN Replacement(variables[i].value)
                  \o Substitute(SubSeq(text,
                                       Len(Placeholder(variables[i].key)) + 1,
                                       Len(text)),
                                variables)

\* C25: render replaces every occurrence in the template of the placeholder
\* of every key of the variables with the value of the key, the string
\* itself or the JSON text of another value, and leaves every other
\* placeholder as it is
C25_RenderSubstitutesValues ==
  rendered.result = Substitute(rendered.template, rendered.variables)

\* C30: the result of render does not depend on the order of the keys of
\* the variables: what a value brings into the text is not replaced
C30_RenderIgnoresKeyOrder ==
  \A order \in Permutations(1..Len(rendered.variables)) :
    render(rendered.template,
           [i \in 1..Len(rendered.variables) |-> rendered.variables[order[i]]])
      = rendered.result

\* the ids are pairwise distinct, every parent_id names a task of the list,
\* and no task is its own ancestor
WellFormed(ts) ==
  /\ \A i, j \in 1..Len(ts) : ts[i].task_id = ts[j].task_id => i = j
  /\ \A i \in 1..Len(ts) :
       ts[i].parent_id # 0 => \E j \in 1..Len(ts) : ts[j].task_id = ts[i].parent_id
  /\ \A i \in 1..Len(ts) : ~OnCycle(ts, ts[i].task_id)

\* C26: topologicalSort returns an order exactly when the task ids are
\* pairwise distinct, every non-empty parent_id is the id of a task of the
\* list and no task is its own ancestor; in every other case it fails and
\* returns no order
C26_SortSucceedsIffWellFormed ==
  (pc \in {"checked", "sorted", "batched"} \/ SortFailed) =>
    /\ topologicalSort(tasks).ok <=> WellFormed(tasks)
    /\ pc = "sorted" => WellFormed(tasks) /\ Len(sortedTasks) = Len(tasks)
    /\ SortFailed => /\ ~WellFormed(tasks)
                     /\ sortedTasks = <<>>
                     /\ topologicalSort(tasks).tasks = <<>>

\* a root, and a task that is its own parent
C26_Witness ==
  /\ SortFailed
  /\ Len(tasks) = 2
  /\ tasks[1].parent_id = 0
  /\ tasks[2].parent_id = tasks[2].task_id
  /\ tasks[1].task_id # tasks[2].task_id
  /\ sortedTasks = <<>>

\* the batches one after the other
RECURSIVE Flatten(_)
Flatten(bs) == IF bs = <<>> THEN <<>> ELSE Head(bs) \o Flatten(Tail(bs))

\* C27: when getParallelBatches succeeds no batch is empty, every task of
\* the input is in exactly one batch, and the batches one after the other
\* are the sequence that topologicalSort returns on the same input
C27_BatchesPartitionSortedOrder ==
  pc = "batched" =>
    /\ \A k \in 1..Len(batches) : Len(batches[k]) > 0
    /\ \A i \in 1..Len(tasks) :
         Cardinality({<<k, j>> \in (1..Len(batches)) \X (1..Len(tasks)) :
                        j <= Len(batches[k]) /\ batches[k][j] = tasks[i]}) = 1
    /\ Len(Flatten(batches)) = Len(tasks)
    /\ Flatten(batches) = topologicalSort(tasks).tasks

\* two chains of two tasks, given leaves first: two batches of two tasks
C27_Witness ==
  /\ pc = "batched"
  /\ Len(tasks) = 4
  /\ tasks[1].parent_id # 0
  /\ tasks[2].parent_id # 0
  /\ Len(batches) = 2
  /\ Len(batches[1]) = 2
  /\ Len(batches[2]) = 2
  /\ Flatten(batches) # tasks

\* no id was put into the queue of the sort twice, and every id put into
\* it is the id of a task
EnqueuedOnce ==
  /\ \A i, j \in 1..Len(loop.enqueued) :
       loop.enqueued[i] = loop.enqueued[j] => i = j
  /\ Range(loop.enqueued) \subseteq Ids(loop.tasks)

\* an iteration of the batching loop fails or completes one more task
BatchIterationSchedules ==
  (loop.phase = "batching" /\ loop' # loop) =>
    \/ loop'.phase \in {"failed", "returned"}
    \/ /\ loop'.phase = "batching"
       /\ Cardinality(loop'.completed) > Cardinality(loop.completed)
       /\ Len(loop'.batches) = Len(loop.batches) + 1

\* C28: topologicalSort and getParallelBatches end on every task list,
\* with a cycle, a duplicate id or an unknown parent_id or without: the sort
\* puts each task id into its queue at most once and then returns or
\* throws, and every iteration of the batching loop completes a new task or
\* throws, until the call returns or throws
C28_LoopsTerminate ==
  /\ []EnqueuedOnce
  /\ [][BatchIterationSchedules]_vars
  /\ (loop.phase = "sorting") ~> (loop.phase \in {"batching", "failed"})
  /\ (loop.phase = "batching") ~> (loop.phase \in {"returned", "failed"})

\* a root and two tasks on a cycle: the root went through the queue and the
\* sort threw
C28_Witness ==
  /\ loop.phase = "failed"
  /\ loop.error = "cycle"
  /\ Len(loop.tasks) = 3
  /\ HasCycle(loop.tasks)
  /\ Len(loop.enqueued) = 1
  /\ loop.sorted = loop.enqueued
  /\ loop.queue = <<>>

\* C29: whenever topologicalSort fails, its error carries at least one id of
\* a task that could not be sorted
C29_SortErrorNamesATask ==
  SortFailed => /\ error.ids # <<>>
                /\ Range(error.ids) \subseteq Ids(tasks)

====
